---- MODULE Spec2Model ----
(***************************************************************************)
(* Snap Money (THB -> KRW converter): the photo detection and conversion   *)
(* flow of the three variants of the application kept in the repository:   *)
(*   "App1"   src/App.tsx lines 1-298   (themed variant, recompute effects)*)
(*   "App2"   src/App.tsx lines 299-534 (earlier variant, no effects)      *)
(*   "Part0"  src/unnamed/part_000      (form variant, rate kept as text)  *)
(*                                                                         *)
(* Numbers are fixed-point: an amount or a rate n is stored as n * 10      *)
(* (38.8 is 388, 1000 is 10000), so a product amount * rate is stored      *)
(* as the exact product of the two stored values (hundredths).             *)
(* A text (an error message) is the sequence of its characters.            *)
(***************************************************************************)
EXTENDS Integers, Sequences, FiniteSets, TLC

VARIABLES variant, apiKey, mode, exchangeRate, rateInput,
          manualInput, manualResult, manualError,
          imageFile, imagePreview, photoResults, isLoading, error,
          pending, lastOp

vars == <<variant, apiKey, mode, exchangeRate, rateInput,
          manualInput, manualResult, manualError,
          imageFile, imagePreview, photoResults, isLoading, error,
          pending, lastOp>>

\* The state of one session as the user sees it (everything but the history
\* variable lastOp and the requests in flight).
envVars == <<variant, apiKey>>
manualVars == <<manualInput, manualResult, manualError>>
photoVars == <<imageFile, imagePreview, photoResults, isLoading, error>>

(***************************************************************************)
(* Bounds                                                                  *)
(***************************************************************************)
NumImages == 2       \* distinct image files the user can pick
MaxAmounts == 2      \* longest list of amounts a response carries
MaxPending == 2      \* cap on detections in flight at once

(***************************************************************************)
(* Constants of the program                                                *)
(***************************************************************************)
DEFAULT_EXCHANGE_RATE == 388

Variants == {"App1", "App2", "Part0"}
IsApp == variant \in {"App1", "App2"}

NoFile == 0
Images == 1..NumImages

\* The name of the photo tab: 'photo' in App.tsx, 'image' in part_000.
PhotoMode == IF variant = "Part0" THEN "image" ELSE "photo"
Modes == {"manual", PhotoMode}
InitialMode == IF variant = "Part0" THEN "image" ELSE "manual"

(***************************************************************************)
(* Texts                                                                   *)
(***************************************************************************)
MissingKeyMsg ==
  <<"M","i","s","s","i","n","g"," ","V","I","T","E","_","G","E","M","I","N","I",
    "_","A","P","I","_","K","E","Y">>
\* The SDK's browser client refuses a null key with this message.
SdkKeyMsg ==
  <<"A","n"," ","A","P","I"," ","K","e","y"," ","m","u","s","t"," ","b","e"," ",
    "s","e","t">>
KeyNotValidMsg ==
  <<"A","P","I"," ","k","e","y"," ","n","o","t"," ","v","a","l","i","d">>
FetchFailedMsg ==
  <<"F","a","i","l","e","d"," ","t","o"," ","f","e","t","c","h">>
SyntaxErrorMsg ==
  <<"U","n","e","x","p","e","c","t","e","d"," ","t","o","k","e","n">>
TypeErrorMsg ==
  <<"n","o","t"," ","a"," ","f","u","n","c","t","i","o","n">>
ReadBase64Msg ==
  <<"F","a","i","l","e","d"," ","t","o"," ","r","e","a","d"," ","f","i","l","e",
    " ","a","s"," ","b","a","s","e","6","4",".">>
\* '모델이 비어있는 응답을 반환했습니다.' (no ASCII letter in it): one element.
EmptyResponseMsg == <<"empty-response-ko">>
UnknownErrorMsg ==
  <<"A","n"," ","u","n","k","n","o","w","n"," ","e","r","r","o","r"," ",
    "o","c","c","u","r","r","e","d">>
ImportFailedMsg ==
  <<"F","a","i","l","e","d"," ","t","o"," ","f","e","t","c","h"," ",
    "m","o","d","u","l","e">>

Upper == <<"A","B","C","D","E","F","G","H","I","J","K","L","M",
           "N","O","P","Q","R","S","T","U","V","W","X","Y","Z">>
Lower == <<"a","b","c","d","e","f","g","h","i","j","k","l","m",
           "n","o","p","q","r","s","t","u","v","w","x","y","z">>

\* String.prototype.toLowerCase on one character (the i flag of a RegExp).
ToLower(c) ==
  IF \E k \in 1..26 : Upper[k] = c
    THEN Lower[CHOOSE k \in 1..26 : Upper[k] = c]
    ELSE c

IsSpace(c) == c \in {" ", "\t", "\n"}

\* m has the three characters w (compared case-insensitively) at position i.
HasAtNoCase(m, i, w) ==
  /\ i >= 1
  /\ i + Len(w) - 1 <= Len(m)
  /\ \A k \in 1..Len(w) : ToLower(m[i + k - 1]) = w[k]

\* /api\s*key/i.test(message)
MatchesApiKeyRegex(m) ==
  \E i \in 1..Len(m) :
    /\ HasAtNoCase(m, i, <<"a","p","i">>)
    /\ \E j \in (i + 3)..Len(m) :
         /\ \A k \in (i + 3)..(j - 1) : IsSpace(m[k])
         /\ HasAtNoCase(m, j, <<"k","e","y">>)

\* message.includes('API Key')
IncludesAPIKey(m) ==
  \E i \in 1..Len(m) :
    /\ i + 6 <= Len(m)
    /\ SubSeq(m, i, i + 6) = <<"A","P","I"," ","K","e","y">>

(***************************************************************************)
(* Numbers typed into a field                                              *)
(***************************************************************************)
NaN == [nan |-> TRUE, val |-> 0]
Num(n) == [nan |-> FALSE, val |-> n]

\* What the user types into the rate field.
RateInputs == {"38.8", "40", "0", "-1", "abc"}

\* parseFloat on the texts the model types (values stored * 10).
parseFloat(s) ==
  CASE s = "38.8" -> Num(388)
    [] s = "40" -> Num(400)
    [] s = "0" -> Num(0)
    [] s = "-1" -> Num(-10)
    [] s = "1200" -> Num(12000)
    [] s = "-5" -> Num(-50)
    [] s = "12abc" -> Num(120)
    [] OTHER -> NaN

\* parseFloat(e.target.value) || 0 : NaN and 0 are falsy.
RateFromField(s) ==
  IF parseFloat(s).nan \/ parseFloat(s).val = 0 THEN 0 ELSE parseFloat(s).val

getCurrentRate(input) ==
  IF parseFloat(input).nan \/ parseFloat(input).val <= 0
    THEN DEFAULT_EXCHANGE_RATE
    ELSE parseFloat(input).val

\* The rate a conversion started now would use.
CurrentRate == IF variant = "Part0" THEN getCurrentRate(rateInput) ELSE exchangeRate

Abs(n) == IF n < 0 THEN 0 - n ELSE n

\* Number.prototype.toLocaleString('ko-KR', {maximumFractionDigits: 2}) of a
\* product (stored in hundredths): sign, integer part, two fraction digits.
toLocaleString2(v) == [neg |-> v < 0, int |-> Abs(v) \div 100, frac |-> Abs(v) % 100]

(***************************************************************************)
(* Photo results                                                           *)
(***************************************************************************)
\* What the inference endpoint can return for a picture: 1200.5 (a product
\* with a fraction at every rate) and -5 (the schema asks for numbers, not
\* for non-negative ones).
AmountValues == {12005, -50}

AmountLists == UNION {[1..n -> AmountValues] : n \in 0..MaxAmounts}

\* A conversion rounded down to whole won.
ConvertRounded(amount, rate) == ((amount * rate) \div 100) * 100

\* amount * rate: the product as it is, in hundredths.
Convert(amount, rate) == amount * rate

\* detectedAmounts.map(amount => ({original: amount, converted: amount * rate}))
ConvertAll(amounts, rate) ==
  [i \in 1..Len(amounts) |->
     [original |-> amounts[i], converted |-> Convert(amounts[i], rate)]]

\* A recompute that starts from the previous converted value: the
\* compounding of rates the engine must avoid.
RecomputeCompounding(results, rate) ==
  [i \in 1..Len(results) |->
     [original |-> results[i].original, converted |-> results[i].converted * rate]]

\* photoResults.map(result => ({original: result.original,
\*                              converted: result.original * exchangeRate}))
Recompute(results, rate) ==
  [i \in 1..Len(results) |->
     [original |-> results[i].original, converted |-> results[i].original * rate]]

(***************************************************************************)
(* Error state                                                             *)
(***************************************************************************)
NoError == [kind |-> "none", appended |-> FALSE, detail |-> <<>>]
SelectFirstError == [kind |-> "selectFirst", appended |-> FALSE, detail |-> <<>>]
NoAmountsError == [kind |-> "noAmounts", appended |-> FALSE, detail |-> <<>>]
ApiKeyError == [kind |-> "apiKey", appended |-> FALSE, detail |-> <<>>]
GenericError == [kind |-> "generic", appended |-> FALSE, detail |-> <<>>]
GenericErrorWith(m) == [kind |-> "generic", appended |-> TRUE, detail |-> m]

\* A thrown value: an Error with a message, or something else (the
\* ProgressEvent a FileReader rejects with).
ErrorOf(m) == [isError |-> TRUE, message |-> m]
NotAnError == [isError |-> FALSE, message |-> <<>>]

\* A catch block that swallows the failure and shows nothing.
CatchSilently(err) == NoError

\* The catch block of handleDetectAndConvert: the message shown for err.
CatchMessage(err) ==
  CASE variant = "App1" ->
         IF ~err.isError THEN GenericError
         ELSE IF MatchesApiKeyRegex(err.message) THEN ApiKeyError
         ELSE GenericErrorWith(err.message)
    [] variant = "App2" ->
         IF ~err.isError THEN GenericError
         ELSE IF IncludesAPIKey(err.message) THEN ApiKeyError
         ELSE GenericErrorWith(err.message)
    [] OTHER ->
         GenericErrorWith(IF err.isError THEN err.message ELSE UnknownErrorMsg)

(***************************************************************************)
(* Requests in flight and what the outside world answers                   *)
(***************************************************************************)
\* One started handleDetectAndConvert: the image and the rate its closure
\* captured, and the await it is suspended at ("import", "read", "call").
Request(image, rate, stage) == [image |-> image, rate |-> rate, stage |-> stage]

Remove(seq, i) == SubSeq(seq, 1, i - 1) \o SubSeq(seq, i + 1, Len(seq))

\* How a file read settles: the data, an empty payload, or the reader's
\* error event.
ReadOutcomes == {"ok", "emptyData", "readerError"}

\* How the inference call settles: rejected with an Error, or a response
\* whose text is JSON of the requested shape carrying amounts, is empty, is
\* missing, is not JSON, or is JSON of another shape ('{}').
Outcome(kind, amounts, message) ==
  [kind |-> kind, amounts |-> amounts, message |-> message]
EndpointErrors == {KeyNotValidMsg, FetchFailedMsg}
CallOutcomes ==
  {Outcome("rejected", <<>>, m) : m \in EndpointErrors}
    \cup {Outcome("json", a, <<>>) : a \in AmountLists}
    \cup {Outcome(k, <<>>, <<>>) :
            k \in {"emptyText", "missingText", "notJson", "otherShape"}}

Parsed(amounts) == [threw |-> FALSE, err |-> NotAnError, amounts |-> amounts]
Thrown(err) == [threw |-> TRUE, err |-> err, amounts |-> <<>>]

\* A lenient reading of the response: whatever is not a list of amounts
\* counts as no amounts.
ParseResponseLenient(o) ==
  IF o.kind = "json" THEN Parsed(o.amounts) ELSE Parsed(<<>>)

\* From the response to the detected amounts, or to the value thrown on
\* the way.
\*   App.tsx:  JSON.parse(response.text || '[]') as number[], then .length
\*             and .map on it
\*   part_000: response.text.trim(), the empty-response throw,
\*             JSON.parse(responseText).amounts, !amounts
ParseResponse(o) ==
  IF IsApp
    THEN CASE o.kind = "json" -> Parsed(o.amounts)
           [] o.kind \in {"emptyText", "missingText"} -> Parsed(<<>>)
           [] o.kind = "notJson" -> Thrown(ErrorOf(SyntaxErrorMsg))
           [] OTHER -> Thrown(ErrorOf(TypeErrorMsg))
    ELSE CASE o.kind = "json" -> Parsed(o.amounts)
           [] o.kind = "missingText" -> Thrown(ErrorOf(TypeErrorMsg))
           [] o.kind = "emptyText" -> Thrown(ErrorOf(EmptyResponseMsg))
           [] o.kind = "notJson" -> Thrown(ErrorOf(SyntaxErrorMsg))
           [] OTHER -> Parsed(<<>>)

RespTag(o) ==
  CASE o.kind = "rejected" -> "callRejected"
    [] o.kind = "json" /\ o.amounts = <<>> -> "resp:emptyArray"
    [] o.kind = "json" -> "resp:amounts"
    [] OTHER -> "resp:" \o o.kind

(***************************************************************************)
(* Initial state                                                           *)
(***************************************************************************)
Init ==
  /\ variant \in Variants
  /\ apiKey \in BOOLEAN
  /\ mode = InitialMode
  /\ exchangeRate = DEFAULT_EXCHANGE_RATE
  /\ rateInput = "38.8"
  /\ manualInput = ""
  /\ manualResult = <<>>
  /\ manualError = NoError
  /\ imageFile = NoFile
  /\ imagePreview = NoFile
  /\ photoResults = <<>>
  /\ isLoading = FALSE
  /\ error = NoError
  /\ pending = <<>>
  /\ lastOp = "init"

(***************************************************************************)
(* User actions                                                            *)
(***************************************************************************)
\* The manual amount is one a conversion accepts.
ValidAmount(s) == ~parseFloat(s).nan /\ parseFloat(s).val >= 0

\* The rate field's onChange, with the effects the new rate triggers.
RateEdit(s) ==
  /\ lastOp' = "rateEdit"
  /\ IF IsApp
       THEN /\ exchangeRate' = RateFromField(s)
            /\ UNCHANGED rateInput
            /\ IF variant = "App1" /\ exchangeRate' # exchangeRate
                 THEN /\ manualResult' =
                           IF manualInput # "" /\ ValidAmount(manualInput)
                             THEN <<toLocaleString2(parseFloat(manualInput).val * exchangeRate')>>
                             ELSE manualResult
                      /\ photoResults' =
                           IF Len(photoResults) > 0
                             THEN Recompute(photoResults, exchangeRate')
                             ELSE photoResults
                 ELSE UNCHANGED <<manualResult, photoResults>>
       ELSE /\ rateInput' = s
            /\ UNCHANGED <<exchangeRate, manualResult, photoResults>>
  /\ UNCHANGED <<envVars, mode, manualInput, manualError,
                 imageFile, imagePreview, isLoading, error, pending>>

\* The file inputs are rendered in the photo tab; in part_000 only while
\* no preview is shown.
FileInputShown ==
  /\ mode = PhotoMode
  /\ variant = "Part0" => imagePreview = NoFile

\* A file change that forgets to empty the results.
handleFileChange_keepsResults(file) ==
  /\ FileInputShown
  /\ IF file # NoFile
       THEN /\ imageFile' = file
            /\ imagePreview' = file
            /\ error' = NoError
            /\ UNCHANGED photoResults
            /\ lastOp' = "fileChange"
       ELSE /\ UNCHANGED <<imageFile, imagePreview, error, photoResults>>
            /\ lastOp' = "fileChangeNoFile"
  /\ UNCHANGED <<envVars, mode, exchangeRate, rateInput, manualVars,
                 isLoading, pending>>

\* file = NoFile: a change event whose file list is empty.
handleFileChange(file) ==
  /\ FileInputShown
  /\ IF file # NoFile
       THEN /\ imageFile' = file
            /\ imagePreview' = file
            /\ error' = NoError
            /\ photoResults' = <<>>
            /\ lastOp' = "fileChange"
       ELSE /\ UNCHANGED <<imageFile, imagePreview, error, photoResults>>
            /\ lastOp' = "fileChangeNoFile"
  /\ UNCHANGED <<envVars, mode, exchangeRate, rateInput, manualVars,
                 isLoading, pending>>

\* The clear button on the preview: an inline handler in App.tsx (the error
\* is not touched), resetImageState in part_000.
ClearImage ==
  /\ mode = PhotoMode
  /\ imagePreview # NoFile
  /\ imagePreview' = NoFile
  /\ imageFile' = NoFile
  /\ photoResults' = <<>>
  /\ error' = IF variant = "Part0" THEN NoError ELSE error
  /\ lastOp' = "clear"
  /\ UNCHANGED <<envVars, mode, exchangeRate, rateInput, manualVars,
                 isLoading, pending>>

\* A tab button: setMode alone in App.tsx; in part_000 also the reset of the
\* manual result, the manual error and the image state.
SetMode(m) ==
  /\ mode' = m
  /\ lastOp' = "setMode"
  /\ IF variant = "Part0"
       THEN /\ manualError' = NoError
            /\ manualResult' = <<>>
            /\ imageFile' = NoFile
            /\ imagePreview' = NoFile
            /\ photoResults' = <<>>
            /\ error' = NoError
       ELSE UNCHANGED <<manualError, manualResult, imageFile, imagePreview,
                        photoResults, error>>
  /\ UNCHANGED <<envVars, exchangeRate, rateInput, manualInput, isLoading, pending>>

\* A detect button without disabled={isLoading}.
DetectButtonNotDisabled == imageFile # NoFile

\* The detect button can be pressed: it is there (App.tsx renders it only
\* with an image) and not disabled.
DetectButtonEnabled == imageFile # NoFile /\ ~isLoading

\* A start of detection that leaves the previous results in place.
StartDetection_keepsResults ==
  /\ isLoading' = TRUE
  /\ error' = NoError
  /\ UNCHANGED photoResults
  /\ pending' = Append(pending,
       Request(imageFile, CurrentRate,
               IF variant = "Part0" THEN "import" ELSE "read"))

\* A start of detection that leaves the previous error message in place.
StartDetection_keepsError ==
  /\ isLoading' = TRUE
  /\ UNCHANGED error
  /\ photoResults' = <<>>
  /\ pending' = Append(pending,
       Request(imageFile, CurrentRate,
               IF variant = "Part0" THEN "import" ELSE "read"))

\* The handler past its guard, up to its first await: the flag is set, the
\* error and the results are cleared, and the closure is suspended.
StartDetection ==
  /\ isLoading' = TRUE
  /\ error' = NoError
  /\ photoResults' = <<>>
  /\ pending' = Append(pending,
       Request(imageFile, CurrentRate,
               IF variant = "Part0" THEN "import" ELSE "read"))

\* A handler that sets the flag before it looks for the image.
handleDetectAndConvert_flagFirst ==
  /\ Len(pending) < MaxPending
  /\ lastOp' = "detect"
  /\ IF imageFile = NoFile
       THEN /\ error' = SelectFirstError
            /\ isLoading' = TRUE
            /\ UNCHANGED <<photoResults, pending>>
       ELSE StartDetection
  /\ UNCHANGED <<envVars, mode, exchangeRate, rateInput, manualVars,
                 imageFile, imagePreview>>

\* handleDetectAndConvert up to its first await.
handleDetectAndConvert ==
  /\ Len(pending) < MaxPending
  /\ lastOp' = "detect"
  /\ IF imageFile = NoFile
       THEN /\ error' = SelectFirstError
            /\ UNCHANGED <<isLoading, photoResults, pending>>
       ELSE StartDetection
  /\ UNCHANGED <<envVars, mode, exchangeRate, rateInput, manualVars,
                 imageFile, imagePreview>>

\* The detect button is pressed (part_000: its form is submitted).
PressDetect ==
  /\ mode = PhotoMode
  /\ DetectButtonEnabled
  /\ handleDetectAndConvert

\* The handler is called with no image selected. The rendered page gives no
\* way to do so: App.tsx renders the button only with an image, part_000
\* disables the form's submit button without one.
DetectWithoutImage ==
  /\ imageFile = NoFile
  /\ handleDetectAndConvert

(***************************************************************************)
(* Manual conversion                                                       *)
(***************************************************************************)
\* What the user types into the amount field.
ManualInputs == {"", " ", "1200", "-5", "abc", "12abc"}

\* The value an <input type="number"> reports (App.tsx): the text when it
\* is a number, '' otherwise. part_000's field is type="text".
NumberFieldValue(s) == IF s \in {"1200", "-5"} THEN s ELSE ""

\* String.prototype.trim
Trim(s) == IF s = " " THEN "" ELSE s

EnterAmountError == [kind |-> "enterAmount", appended |-> FALSE, detail |-> <<>>]
InvalidNumberError == [kind |-> "invalidNumber", appended |-> FALSE, detail |-> <<>>]

\* An amount field change that leaves the result of the previous input.
handleManualInputChange_keepsResult(s) ==
  /\ IsApp
  /\ mode = "manual"
  /\ manualInput' = NumberFieldValue(s)
  /\ manualResult' =
       IF ValidAmount(manualInput')
         THEN <<toLocaleString2(parseFloat(manualInput').val * exchangeRate)>>
         ELSE manualResult
  /\ lastOp' = "manualInput"
  /\ UNCHANGED <<envVars, mode, exchangeRate, rateInput, manualError,
                 photoVars, pending>>

\* App.tsx: the amount field's onChange converts at once. (The effect on
\* manualInput of the first variant computes the same value again.)
handleManualInputChange(s) ==
  /\ IsApp
  /\ mode = "manual"
  /\ manualInput' = NumberFieldValue(s)
  /\ manualResult' =
       IF ValidAmount(manualInput')
         THEN <<toLocaleString2(parseFloat(manualInput').val * exchangeRate)>>
         ELSE <<>>
  /\ lastOp' = "manualInput"
  /\ UNCHANGED <<envVars, mode, exchangeRate, rateInput, manualError,
                 photoVars, pending>>

\* part_000: the amount field's onChange only stores the text.
setThbAmount(s) ==
  /\ variant = "Part0"
  /\ mode = "manual"
  /\ manualInput' = s
  /\ lastOp' = "thbAmount"
  /\ UNCHANGED <<envVars, mode, exchangeRate, rateInput, manualResult, manualError,
                 photoVars, pending>>

\* part_000: the submit of the manual form. Its message is the manual
\* tab's own state (error); the photo tab has imageError.
handleConvert ==
  /\ variant = "Part0"
  /\ mode = "manual"
  /\ lastOp' = "convert"
  /\ IF Trim(manualInput) = ""
       THEN /\ manualError' = EnterAmountError
            /\ manualResult' = <<>>
       ELSE IF parseFloat(Trim(manualInput)).nan \/ parseFloat(Trim(manualInput)).val < 0
         THEN /\ manualError' = InvalidNumberError
              /\ manualResult' = <<>>
         ELSE /\ manualError' = NoError
              /\ manualResult' =
                   <<Convert(parseFloat(Trim(manualInput)).val,
                             getCurrentRate(rateInput))>>
  /\ UNCHANGED <<envVars, mode, exchangeRate, rateInput, manualInput,
                 photoVars, pending>>

(***************************************************************************)
(* The asynchronous chain of one detection                                 *)
(***************************************************************************)
\* The flag cleared at the end of the try block instead of in finally: a
\* throw leaves it set.
FinallyOnReturnOnly(how) == how = "threw"

\* The finally block: the loading flag after the handler has left its try
\* block by returning or by throwing.
FinallyLoading(how) == FALSE

\* The handler is done with request i.
Finish(i, how) ==
  /\ isLoading' = FinallyLoading(how)
  /\ pending' = Remove(pending, i)

\* A value thrown inside the try block: catch, then finally.
Fail(i, err) ==
  /\ error' = CatchMessage(err)
  /\ UNCHANGED photoResults
  /\ Finish(i, "threw")

\* The request goes out: the handler is suspended at generateContent.
IssueRequest(i) ==
  /\ pending' = [pending EXCEPT ![i].stage = "call"]
  /\ UNCHANGED <<photoResults, error, isLoading>>

\* part_000 awaits the dynamic import of the SDK first.
ImportSettle(i, ok) ==
  /\ i \in 1..Len(pending)
  /\ variant = "Part0"
  /\ pending[i].stage = "import"
  /\ IF ok
       THEN /\ pending' = [pending EXCEPT ![i].stage = "read"]
            /\ UNCHANGED <<photoResults, error, isLoading>>
            /\ lastOp' = "importResolved"
       ELSE /\ Fail(i, ErrorOf(ImportFailedMsg))
            /\ lastOp' = "importRejected"
  /\ UNCHANGED <<envVars, mode, exchangeRate, rateInput, manualVars,
                 imageFile, imagePreview>>

\* The value the file read rejects with, if it does.
\*   fileToBase64 (App.tsx): the reader's error event; an empty payload
\*     resolves.
\*   fileToGenerativePart (part_000): also an Error for an empty payload.
ReadRejection(outcome) ==
  CASE outcome = "readerError" -> <<NotAnError>>
    [] outcome = "emptyData" /\ variant = "Part0" -> <<ErrorOf(ReadBase64Msg)>>
    [] OTHER -> <<>>

\* The file read settles and the handler runs on to its next await.
\*   App.tsx: the credential check, then the request.
\*   part_000: no check; the client is built with whatever the environment
\*     holds. With no key the SDK either throws in the constructor
\*     (sdkThrows) or sends the request.
ReadSettle(i, outcome, sdkThrows) ==
  /\ i \in 1..Len(pending)
  /\ pending[i].stage = "read"
  /\ lastOp' = "read:" \o outcome
  /\ IF ReadRejection(outcome) # <<>>
       THEN Fail(i, ReadRejection(outcome)[1])
       ELSE IF IsApp
         THEN IF ~apiKey
                THEN Fail(i, ErrorOf(MissingKeyMsg))
                ELSE IssueRequest(i)
         ELSE IF ~apiKey /\ sdkThrows
                THEN Fail(i, ErrorOf(SdkKeyMsg))
                ELSE IssueRequest(i)
  /\ UNCHANGED <<envVars, mode, exchangeRate, rateInput, manualVars,
                 imageFile, imagePreview>>

\* The inference call settles: the rest of the try block, catch, finally.
\* A call made without a key is rejected by the endpoint.
CallSettle(i, o) ==
  /\ i \in 1..Len(pending)
  /\ pending[i].stage = "call"
  /\ ~apiKey => o.kind = "rejected"
  /\ lastOp' = RespTag(o)
  /\ IF o.kind = "rejected"
       THEN Fail(i, ErrorOf(o.message))
       ELSE IF ParseResponse(o).threw
         THEN Fail(i, ParseResponse(o).err)
         ELSE IF Len(ParseResponse(o).amounts) = 0
           THEN /\ error' = NoAmountsError
                /\ UNCHANGED photoResults
                /\ Finish(i, "returned")
           ELSE /\ photoResults' = ConvertAll(ParseResponse(o).amounts, pending[i].rate)
                /\ UNCHANGED error
                /\ Finish(i, "returned")
  /\ UNCHANGED <<envVars, mode, exchangeRate, rateInput, manualVars,
                 imageFile, imagePreview>>

\* Some await of some detection settles.
Settle ==
  \/ \E i \in 1..MaxPending : \E ok \in BOOLEAN : ImportSettle(i, ok)
  \/ \E i \in 1..MaxPending : \E r \in ReadOutcomes : \E t \in BOOLEAN : ReadSettle(i, r, t)
  \/ \E i \in 1..MaxPending : \E o \in CallOutcomes : CallSettle(i, o)

(***************************************************************************)
(* Specifications                                                          *)
(***************************************************************************)
Next ==
  \/ \E s \in RateInputs : RateEdit(s)
  \/ \E f \in {NoFile} \cup Images : handleFileChange(f)
  \/ ClearImage
  \/ \E m \in Modes : SetMode(m)
  \/ PressDetect
  \/ \E i \in 1..MaxPending : \E ok \in BOOLEAN : ImportSettle(i, ok)
  \/ \E i \in 1..MaxPending : \E r \in ReadOutcomes : \E t \in BOOLEAN : ReadSettle(i, r, t)
  \/ \E i \in 1..MaxPending : \E o \in CallOutcomes : CallSettle(i, o)

Spec == Init /\ [][Next]_vars

\* Every await settles: the file read ends in onload or onerror, the import
\* and the inference call resolve or reject.
LiveSpec == Init /\ [][Next]_vars /\ WF_vars(Settle)

\* The manual tab alone: the amount field, the submit, the rate field and
\* the tabs. The photo state stays as it starts.
ManualStep ==
  \/ \E s \in ManualInputs : handleManualInputChange(s)
  \/ \E s \in ManualInputs : setThbAmount(s)
  \/ handleConvert

NextManual ==
  \/ \E s \in RateInputs : RateEdit(s)
  \/ \E m \in Modes : SetMode(m)
  \/ ManualStep

ManualSpec == Init /\ [][NextManual]_vars

\* The photo tab with handleDetectAndConvert also called directly, past the
\* button.
NextDirect == Next \/ DetectWithoutImage

DirectSpec == Init /\ [][NextDirect]_vars

\* Both tabs together.
NextAll == Next \/ ManualStep

AllSpec == Init /\ [][NextAll]_vars

TypeOK ==
  /\ variant \in Variants
  /\ apiKey \in BOOLEAN
  /\ mode \in Modes
  /\ imageFile \in {NoFile} \cup Images
  /\ imagePreview \in {NoFile} \cup Images
  /\ isLoading \in BOOLEAN
  /\ Len(photoResults) <= MaxAmounts
  /\ Len(pending) <= MaxPending

(***************************************************************************)
(* Properties                                                              *)
(***************************************************************************)
\* The tags of the steps at which an await settles.
SettleTags ==
  {"importResolved", "importRejected", "callRejected"}
    \cup {"read:" \o r : r \in ReadOutcomes}
    \cup {RespTag(o) : o \in CallOutcomes}

\* The last step ended a detection (catch or the end of the try block, then
\* finally).
DetectionJustEnded == lastOp \in SettleTags /\ pending = <<>>

\* The last step ended a detection at the point where the handler needs the
\* credential and has none: the file read resolved and nothing was sent.
CredentialFoundMissing ==
  /\ ~apiKey
  /\ pending = <<>>
  /\ lastOp = "read:ok" \/ (IsApp /\ lastOp = "read:emptyData")

\* C1: whenever photo results are displayed, every result's converted value
\* is its original amount times the rate currently in effect.
C1_DisplayedMatchesRate ==
  (mode = PhotoMode /\ Len(photoResults) > 0) =>
    \A i \in 1..Len(photoResults) :
      photoResults[i].converted = photoResults[i].original * CurrentRate

\* C2: a rate change applied to displayed results (the recompute effect of
\* App.tsx, first variant) gives every result converted = original * new
\* rate, whatever the previous converted value was, and keeps the originals,
\* their number and their order.
C2_RecomputeFromOriginal ==
  [][(variant = "App1" /\ exchangeRate' # exchangeRate /\ Len(photoResults) > 0) =>
       /\ Len(photoResults') = Len(photoResults)
       /\ \A i \in 1..Len(photoResults) :
            /\ photoResults'[i].original = photoResults[i].original
            /\ photoResults'[i].converted = photoResults[i].original * exchangeRate']_vars

\* C2 witness: two different amounts, in order, recomputed by a rate edit to
\* a rate other than the one they were detected with.
C2_Witness ==
  /\ variant = "App1"
  /\ lastOp = "rateEdit"
  /\ exchangeRate = 400
  /\ photoResults = <<[original |-> 12005, converted |-> 4802000],
                      [original |-> -50, converted |-> -20000]>>

\* C3: while a detection is in flight the loading flag is set (it is set
\* before the first await), and a set flag is eventually cleared, whatever
\* the outcome of the detection.
C3_LoadingEventuallyCleared ==
  /\ [](Len(pending) > 0 => isLoading)
  /\ (isLoading ~> ~isLoading)

\* C3 witness: a detection that ended in the catch block has cleared the flag.
C3_Witness ==
  /\ DetectionJustEnded
  /\ error.kind = "generic"
  /\ ~isLoading

\* C4: at most one detection is in flight.
C4_AtMostOneInFlight == Len(pending) <= 1

\* C4 witness: a detection is in flight for an image the user has replaced
\* since; the detect button is shown for the new image.
C4_Witness ==
  /\ Len(pending) = 1
  /\ mode = PhotoMode
  /\ imageFile # NoFile
  /\ pending[1].image # imageFile

\* C5: a completion for an image that is no longer the selected one leaves
\* the results and the error unchanged.
C5_StaleCompletionIgnored ==
  [][(/\ Len(pending') < Len(pending)
      /\ \A i \in 1..Len(pending) : pending[i].image # imageFile) =>
       UNCHANGED <<photoResults, error>>]_vars

C7_MissingCredentialMessage ==
  (IsApp /\ CredentialFoundMissing) => error = ApiKeyError

C9_ModeSwitchResets ==
  [][mode' # mode =>
       /\ imageFile' = NoFile
       /\ imagePreview' = NoFile
       /\ photoResults' = <<>>
       /\ error' = NoError]_vars

\* C10: a file-change event with a file makes it the selected image with its
\* preview and clears the results and the error, in whatever sub-state and
\* without starting a detection; one with no file changes nothing.
C10_FileChangeResets ==
  [][\A f \in {NoFile} \cup Images :
       handleFileChange(f) =>
         IF f # NoFile
           THEN /\ imageFile' = f
                /\ imagePreview' = f
                /\ photoResults' = <<>>
                /\ error' = NoError
                /\ UNCHANGED <<isLoading, pending>>
           ELSE UNCHANGED <<envVars, mode, exchangeRate, rateInput, manualVars,
                            photoVars, pending>>]_vars

\* C10 witness: an image selected while a detection for another image is in
\* flight.
C10_Witness ==
  /\ lastOp = "fileChange"
  /\ isLoading
  /\ Len(pending) = 1
  /\ imageFile # NoFile
  /\ pending[1].image # imageFile
  /\ photoResults = <<>>
  /\ error = NoError

\* C11: the clear action leaves no image, no preview, no results and no
\* error, whatever the sub-state it is pressed in.
C11_ClearReturnsToNoImage ==
  [][lastOp' = "clear" =>
       /\ imageFile' = NoFile
       /\ imagePreview' = NoFile
       /\ photoResults' = <<>>
       /\ error' = NoError]_vars

\* The last step was a manual conversion: the amount field's onChange in
\* App.tsx, the submit in part_000.
ManualConversionDone == lastOp \in {"manualInput", "convert"}

EffectiveRates == {getCurrentRate(s) : s \in RateInputs}

\* C13: every converted value held was computed with a strictly positive
\* effective rate (the default in place of a non-numeric, zero or negative
\* rate field).
C13_EffectiveRatePositive ==
  \A i \in DOMAIN photoResults :
    \E r \in EffectiveRates :
      /\ r > 0
      /\ photoResults[i].converted = photoResults[i].original * r

\* C14: every original amount held is a number that is not negative.
C14_OriginalsNonNegative ==
  \A i \in DOMAIN photoResults : photoResults[i].original >= 0

C20_ResultsXorError ==
  /\ ~(photoResults # <<>> /\ error # NoError)
  /\ DetectionJustEnded => (photoResults # <<>> \/ error # NoError)

\* C20 witness: a detection has just completed with results and no error.
C20_Witness ==
  /\ DetectionJustEnded
  /\ photoResults # <<>>
  /\ error = NoError

\* C19: the handler called with no image selected sets the select-first
\* error and returns: the flag, the requests in flight and the results are
\* as they were.
C19_NoImageGuard ==
  [][(lastOp' = "detect" /\ imageFile = NoFile) =>
       /\ error' = SelectFirstError
       /\ isLoading' = isLoading
       /\ pending' = pending
       /\ photoResults' = photoResults]_vars

\* C19 witness: the handler has just been called with no image selected;
\* the select-first error is held, nothing is in flight and the flag is
\* clear.
C19_Witness ==
  /\ lastOp = "detect"
  /\ imageFile = NoFile
  /\ error = SelectFirstError
  /\ ~isLoading
  /\ pending = <<>>

\* C17: in manual mode a converted value that is displayed is the product
\* of the amount now in the field, which is valid, and the current rate.
C17_ManualResultCurrent ==
  (mode = "manual" /\ manualResult # <<>>) =>
    /\ ValidAmount(Trim(manualInput))
    /\ manualResult =
         IF IsApp
           THEN <<toLocaleString2(parseFloat(manualInput).val * exchangeRate)>>
           ELSE <<parseFloat(Trim(manualInput)).val * CurrentRate>>

\* The last step ended a detection by a failure of the file read or of the
\* inference call (an empty payload is a failure of the read in part_000
\* only).
ReadOrCallFailed ==
  /\ DetectionJustEnded
  /\ \/ lastOp \in {"callRejected", "read:readerError"}
     \/ variant = "Part0" /\ lastOp = "read:emptyData"

\* C16 as stated: a failed file read or inference call ends with the generic
\* detection-failure message and no results.
C16_FailureShowsGeneric ==
  ReadOrCallFailed => (error.kind = "generic" /\ photoResults = <<>>)

\* C16 amended: a failed file read or inference call is caught: the handler
\* ends with the flag clear and no results, and the message is the generic
\* one, with the Error's message appended when an Error was thrown (part_000
\* appends a fixed text otherwise), or in App.tsx the credential message
\* when the rejection's text passes the variant's API-key test.
C16_FailureCaught ==
  ReadOrCallFailed =>
    /\ photoResults = <<>>
    /\ ~isLoading
    /\ error.kind \in {"generic", "apiKey"}
    /\ error.kind = "apiKey" => (IsApp /\ lastOp = "callRejected")
    /\ (error.kind = "generic" /\ lastOp = "callRejected") =>
         (error.appended /\ error.detail \in EndpointErrors)
    /\ (error.kind = "generic" /\ lastOp = "read:readerError") =>
         IF IsApp THEN ~error.appended ELSE error.detail = UnknownErrorMsg

\* C16 witness: the inference call was rejected and the generic message with
\* the rejection's text is shown, with no results.
C16_Witness ==
  /\ ReadOrCallFailed
  /\ lastOp = "callRejected"
  /\ error = GenericErrorWith(FetchFailedMsg)
  /\ photoResults = <<>>

\* C18: a failure whose text mentions the API key, in any letter case, is
\* shown as the credential message with nothing appended, and every other
\* failure as the generic message.
C18_CredentialMapping ==
  (DetectionJustEnded /\ error.kind \in {"generic", "apiKey"}) =>
    /\ error.kind = "apiKey" => ~error.appended
    /\ (error.kind = "generic" /\ error.appended) => ~MatchesApiKeyRegex(error.detail)

\* C21: while the detecting flag is set, no results and no error are held.
C21_NothingHeldWhileDetecting ==
  isLoading => (photoResults = <<>> /\ error = NoError)

\* C21 witness: the rate was just edited with a detection in flight, and
\* neither results nor an error are held.
C21_Witness ==
  /\ isLoading
  /\ pending # <<>>
  /\ lastOp = "rateEdit"
  /\ photoResults = <<>>
  /\ error = NoError

\* C22: results are held only while an image is selected.
C22_ResultsOnlyWithImage ==
  photoResults # <<>> => imageFile # NoFile

====
